---------------------------- MODULE Spec2Model ----------------------------
(***************************************************************************)
(* Model of loguru_rich_sink.sink: the RichSink run counter (setup, read,  *)
(* write, increment), the constructor, the panel rendering of __call__ and *)
(* get_logger, over a file system holding LOGS_DIR and RUN_FILE.           *)
(***************************************************************************)
EXTENDS Integers, Sequences, FiniteSets, TLC

(***************************************************************************)
(* Bounds of the model.                                                    *)
(***************************************************************************)
\* largest counter value the model lets increment() start from
MaxRun == 10
\* number of external deletions of the storage the environment performs
MaxDeletes == 1

(***************************************************************************)
(* str(int) and int(str): file contents are sequences of characters.       *)
(***************************************************************************)
Digits == <<"0", "1", "2", "3", "4", "5", "6", "7", "8", "9">>

DigitSet == {Digits[i] : i \in 1..10}

Whitespace == {" ", "\n"}

DigitChar(d) == Digits[d + 1]

DigitVal(c) == (CHOOSE i \in 1..10 : Digits[i] = c) - 1

RECURSIVE NatStr(_)
NatStr(n) == IF n < 10 THEN <<DigitChar(n)>>
             ELSE NatStr(n \div 10) \o <<DigitChar(n % 10)>>

\* str(run) of sink.py:265
PyStr(n) == IF n < 0 THEN <<"-">> \o NatStr(0 - n) ELSE NatStr(n)

RECURSIVE LStrip(_)
LStrip(s) == IF s # <<>> /\ Head(s) \in Whitespace THEN LStrip(Tail(s)) ELSE s

RECURSIVE RStrip(_)
RStrip(s) == IF s # <<>> /\ s[Len(s)] \in Whitespace
             THEN RStrip(SubSeq(s, 1, Len(s) - 1)) ELSE s

Strip(s) == RStrip(LStrip(s))

HasSign(s) == s # <<>> /\ Head(s) \in {"-", "+"}

Unsigned(s) == IF HasSign(s) THEN Tail(s) ELSE s

\* the digit part of an int() literal: digits, single underscores between digits
DigitsOK(s) ==
    /\ s # <<>>
    /\ \A i \in 1..Len(s) : s[i] \in DigitSet \cup {"_"}
    /\ s[1] # "_" /\ s[Len(s)] # "_"
    /\ \A i \in 1..(Len(s) - 1) : ~(s[i] = "_" /\ s[i + 1] = "_")

RECURSIVE NatVal(_)
NatVal(s) == IF s = <<>> THEN 0
             ELSE IF s[Len(s)] = "_" THEN NatVal(SubSeq(s, 1, Len(s) - 1))
             ELSE 10 * NatVal(SubSeq(s, 1, Len(s) - 1)) + DigitVal(s[Len(s)])

\* int(f.read()) of sink.py:240 and :257 succeeds
IntOK(s) == DigitsOK(Unsigned(Strip(s)))

\* its value
IntVal(s) == LET t == Strip(s)
             IN  IF HasSign(t) /\ Head(t) = "-" THEN 0 - NatVal(Tail(t))
                 ELSE NatVal(Unsigned(t))

(***************************************************************************)
(* Python values: results of a call, and constructor arguments.            *)
(***************************************************************************)
Return(n) == [kind |-> "return", none |-> FALSE, val |-> n, exc |-> ""]

ReturnNone == [kind |-> "return", none |-> TRUE, val |-> 0, exc |-> ""]

Raise(e) == [kind |-> "raise", none |-> FALSE, val |-> 0, exc |-> e]

Raised(r) == r.kind = "raise"

\* Optional[int]
None == [none |-> TRUE, val |-> 0]

Some(n) == [none |-> FALSE, val |-> n]

\* a value passed as track_run: its Python type and its truth value
PyVal(t, b) == [type |-> t, truthy |-> b]

PyTrue == PyVal("bool", TRUE)

PyFalse == PyVal("bool", FALSE)


(***************************************************************************)
(* rich.style.Style: attributes are tri-state ("unset" when not given).    *)
(***************************************************************************)
Style(bold, dim, color, bgcolor) ==
    [bold |-> bold, dim |-> dim, color |-> color, bgcolor |-> bgcolor]

\* Style.__add__: the attributes the right operand sets override the left's
StyleAdd(a, b) == [f \in DOMAIN a |-> IF b[f] # "unset" THEN b[f] ELSE a[f]]

StyleBold == Style("True", "unset", "unset", "unset")

Levels == {"TRACE", "DEBUG", "INFO", "SUCCESS", "WARNING", "ERROR", "CRITICAL"}

LEVEL_STYLES ==
    ("TRACE" :> Style("unset", "True", "unset", "unset")) @@
    ("DEBUG" :> Style("unset", "unset", "#aaaaaa", "unset")) @@
    ("INFO" :> Style("unset", "unset", "#00afff", "unset")) @@
    ("SUCCESS" :> Style("True", "unset", "#00ff00", "unset")) @@
    ("WARNING" :> Style("True", "unset", "#ffaf00", "unset")) @@
    ("ERROR" :> Style("True", "unset", "#ff5000", "unset")) @@
    ("CRITICAL" :> Style("True", "unset", "#ffffff", "#ff0000"))

GRADIENTS ==
    ("TRACE" :> <<"#888888", "#aaaaaa", "#cccccc">>) @@
    ("DEBUG" :> <<"#338888", "#55aaaa", "#77cccc">>) @@
    ("INFO" :> <<"#008fff", "#00afff", "#00cfff">>) @@
    ("SUCCESS" :> <<"#00aa00", "#00ff00", "#afff00">>) @@
    ("WARNING" :> <<"#ffaa00", "#ffcc00", "#ffff00">>) @@
    ("ERROR" :> <<"#ff0000", "#ff5500", "#ff7700">>) @@
    ("CRITICAL" :> <<"#ff0000", "#ff005f", "#ff00af">>)

(***************************************************************************)
(* What the console is given to print: a notice or a panel.                *)
(***************************************************************************)
NoStyle == Style("unset", "unset", "unset", "unset")

NoPanel ==
    [title |-> [level |-> "", file |-> "", line |-> 0, colors |-> <<>>],
     title_align |-> "", subtitle_align |-> "",
     subtitle |-> [hasRun |-> FALSE, run |-> <<>>, time |-> "", ampm |-> ""],
     body |-> [text |-> "", colors |-> <<>>, style |-> ""],
     border_style |-> NoStyle]

Notice(t) == [kind |-> "text", text |-> t, panel |-> NoPanel]

PanelItem(p) == [kind |-> "panel", text |-> "", panel |-> p]

NoticeNotFound == Notice("Run File Not Found, Creating...")

NoticeDir == Notice("Created Logs Directory: LOGS_DIR")

NoticeFile == Notice("Created Run File, Set to 0")

(***************************************************************************)
(* The world a call runs in: the storage, the console of the sink (absent  *)
(* while the constructor runs), and what the call did so far.              *)
(***************************************************************************)
Ok(w) == [w |-> w, ret |-> ReturnNone]

IO(w, op) == [w EXCEPT !.io = Append(@, op)]

\* self.console.print(item)
ConsolePrint(w, item) ==
    IF ~w.hasConsole THEN [w |-> w, ret |-> Raise("AttributeError")]
    ELSE Ok([w EXCEPT !.printed = Append(@, item),
                      !.buffer = IF w.record THEN Append(@, item) ELSE @])

\* a statement that runs only when the ones before it did not raise
ThenPrint(c, item) == IF Raised(c.ret) THEN c ELSE ConsolePrint(c.w, item)

\* faulty variant: content int() rejects is read as 0
OpenedRead_default(w) ==
    IF ~w.fileExists THEN [w |-> w, ret |-> Raise("FileNotFoundError")]
    ELSE IF ~IntOK(w.fileContent) THEN [w |-> w, ret |-> Return(0)]
    ELSE [w |-> w, ret |-> Return(IntVal(w.fileContent))]

\* open(RUN_FILE, "r") and int(f.read()), the open call already logged
OpenedRead(w) ==
    IF ~w.fileExists THEN [w |-> w, ret |-> Raise("FileNotFoundError")]
    ELSE IF ~IntOK(w.fileContent) THEN [w |-> w, ret |-> Raise("ValueError")]
    ELSE [w |-> w, ret |-> Return(IntVal(w.fileContent))]

\* with open(RUN_FILE, "r") as f: run = int(f.read())
ReadRunFile(w) == OpenedRead(IO(w, "open_r"))

ThenRead(b) == IF Raised(b.ret) THEN b ELSE ReadRunFile(b.w)

\* faulty variant: the file is opened for appending
OpenedWrite_append(w, text) ==
    IF ~w.dirExists THEN [w |-> w, ret |-> Raise("FileNotFoundError")]
    ELSE Ok([w EXCEPT !.fileExists = TRUE,
                      !.fileContent = (IF w.fileExists THEN @ ELSE <<>>) \o text])

\* open(RUN_FILE, "w") and f.write(text), the open call already logged
OpenedWrite(w, text) ==
    IF ~w.dirExists THEN [w |-> w, ret |-> Raise("FileNotFoundError")]
    ELSE Ok([w EXCEPT !.fileExists = TRUE, !.fileContent = text])

\* with open(RUN_FILE, "w") as f: f.write(text)
WriteRunFile(w, text) == OpenedWrite(IO(w, "open_w"), text)

\* setup: if not LOGS_DIR.exists(): mkdir, print
EnsureDir(w) ==
    IF w.dirExists THEN Ok(w)
    ELSE ConsolePrint([IO(w, "mkdir") EXCEPT !.dirExists = TRUE], NoticeDir)

\* faulty variant: the counter file is written "0" whether it exists or not
EnsureFile_reset(w) == ThenPrint(WriteRunFile(w, <<"0">>), NoticeFile)

\* faulty variant: a new counter file starts at "1"
EnsureFile_one(w) ==
    IF w.fileExists THEN Ok(w)
    ELSE ThenPrint(WriteRunFile(w, <<"1">>), NoticeFile)

\* setup: if not RUN_FILE.exists(): write "0", print
EnsureFile(w) ==
    IF w.fileExists THEN Ok(w)
    ELSE ThenPrint(WriteRunFile(w, <<"0">>), NoticeFile)

ThenEnsureFile(a) ==
    IF Raised(a.ret) THEN a ELSE EnsureFile(IO(a.w, "exists_file"))

\* RichSink.setup
setup(track_run, w) ==
    IF ~track_run THEN Ok(w)
    ELSE ThenRead(ThenEnsureFile(EnsureDir(IO(w, "exists_dir"))))

ThenSetup(track_run, p) == IF Raised(p.ret) THEN p ELSE setup(track_run, p.w)

\* faulty variant: a missing counter file is not set up before it is opened
HealMissing_noheal(track_run, w) == Ok(w)

\* read: if not RUN_FILE.exists(): print, self.setup()
HealMissing(track_run, w) ==
    IF w.fileExists THEN Ok(w)
    ELSE ThenSetup(track_run, ConsolePrint(w, NoticeNotFound))

\* RichSink.read
read(track_run, w) ==
    IF ~track_run THEN Ok(w)
    ELSE ThenRead(HealMissing(track_run, IO(w, "exists_file")))

\* faulty variant: the value is written whether runs are tracked or not
write_always(track_run, w, run) == WriteRunFile(w, PyStr(run))

\* RichSink.write
write(track_run, w, run) ==
    IF ~track_run THEN Ok(w) ELSE WriteRunFile(w, PyStr(run))

\* return v unless the statement before raised
Returning(x, v) == IF Raised(x.ret) THEN x ELSE [w |-> x.w, ret |-> Return(v)]

\* faulty variant: the value read is written back without the addition
AddOne_noadd(track_run, r) ==
    IF Raised(r.ret) THEN r
    ELSE IF r.ret.none THEN Ok(r.w)
    ELSE Returning(write(track_run, r.w, r.ret.val), r.ret.val)

\* faulty variant: one call of increment adds two
AddOne_two(track_run, r) ==
    IF Raised(r.ret) THEN r
    ELSE IF r.ret.none THEN Ok(r.w)
    ELSE Returning(write(track_run, r.w, r.ret.val + 2), r.ret.val + 2)

\* faulty variant: the value is taken from the file again when it is written
AddOne_reread(track_run, r) ==
    IF Raised(r.ret) THEN r
    ELSE IF r.ret.none THEN Ok(r.w)
    ELSE Returning(write(track_run, r.w, IntVal(r.w.fileContent) + 1),
                   IntVal(r.w.fileContent) + 1)

\* increment, after run = self.read(): run += 1, self.write(run), return run
AddOne(track_run, r) ==
    IF Raised(r.ret) THEN r
    ELSE IF r.ret.none THEN Ok(r.w)
    ELSE Returning(write(track_run, r.w, r.ret.val + 1), r.ret.val + 1)

\* RichSink.increment
increment(track_run, w) ==
    IF ~track_run THEN Ok(w) ELSE AddOne(track_run, read(track_run, w))

(***************************************************************************)
(* The exit hook of __main__.py.  It imports read, increment and setup     *)
(* from sink.py as functions of the module; they are taken to be the       *)
(* counter operations above with run tracking on.                          *)
(***************************************************************************)
module_read(w) == read(TRUE, w)

module_increment(w) == increment(TRUE, w)

module_setup(w) == setup(TRUE, w)

\* on_exit: run = increment(), reached unless the statement before raised;
\* logger.info('Run {} Completed', run) before it leaves the counter alone
ThenIncrement(r) == IF Raised(r.ret) THEN r ELSE module_increment(r.w)

\* on_exit: except FileNotFoundError: logger.exception, run = setup(), logger.info
ExceptNotFound(r) ==
    IF Raised(r.ret) /\ r.ret.exc = "FileNotFoundError" THEN module_setup(r.w)
    ELSE r

\* on_exit returns None
NoReturn(r) == IF Raised(r.ret) THEN r ELSE Ok(r.w)

\* on_exit: try: read, increment; except FileNotFoundError: setup; then increment
on_exit(w) ==
    NoReturn(ThenIncrement(ExceptNotFound(ThenIncrement(module_read(w)))))

(***************************************************************************)
(* The constructor.                                                        *)
(***************************************************************************)
\* faulty variant: the value is coerced with bool() instead of rejected
track_run_setter_coerce(value) == ReturnNone

\* the track_run setter: rejects what is not a bool
track_run_setter(value) ==
    IF value.type # "bool" THEN Raise("NotImplementedError") ELSE ReturnNone

AsOptional(ret) == IF ret.none THEN None ELSE Some(ret.val)

Self(track_run, run) == [exists |-> TRUE, track_run |-> track_run, run |-> run]

\* __init__: except FileNotFoundError: run = self.setup()
OrSetup(r) ==
    IF Raised(r.ret) /\ r.ret.exc = "FileNotFoundError" THEN setup(TRUE, r.w) ELSE r

\* __init__: self.run = run, with the run read from storage
SeededFrom(r) ==
    IF Raised(r.ret) THEN [w |-> r.w, ret |-> r.ret, self |-> Self(TRUE, None)]
    ELSE [w |-> r.w, ret |-> ReturnNone, self |-> Self(TRUE, AsOptional(r.ret))]

\* faulty variant: a tracking sink reads the counter even when it is given a run
AfterSetter_reads(s, track_run, run, w) ==
    IF Raised(s) THEN [w |-> w, ret |-> s, self |-> Self(FALSE, run)]
    ELSE IF ~track_run.truthy
    THEN [w |-> w, ret |-> ReturnNone, self |-> Self(track_run.truthy, run)]
    ELSE SeededFrom(OrSetup(read(TRUE, w)))

\* __init__ after self.track_run = track_run
AfterSetter(s, track_run, run, w) ==
    IF Raised(s) THEN [w |-> w, ret |-> s, self |-> Self(FALSE, run)]
    ELSE IF ~track_run.truthy \/ ~run.none
    THEN [w |-> w, ret |-> ReturnNone, self |-> Self(track_run.truthy, run)]
    ELSE SeededFrom(OrSetup(read(TRUE, w)))

\* RichSink.__init__(track_run, run, console): w.hasConsole is FALSE, for
\* self.console is assigned by the last statement only
RichSink__init__(track_run, run, w) ==
    AfterSetter(track_run_setter(track_run), track_run, run, w)

(***************************************************************************)
(* Rendering: RichSink.__call__.                                           *)
(***************************************************************************)
\* self.GRADIENTS[level] and self.LEVEL_STYLES[level]
HasGradient(level) == level \in DOMAIN GRADIENTS

HasStyle(level) == level \in DOMAIN LEVEL_STYLES

GradientOf(level) == GRADIENTS[level]

StyleOf(level) == LEVEL_STYLES[level]

\* faulty variant: the level style is used as it is
BorderStyle_plain(style) == style

\* border_style=style + Style(bold=True)
BorderStyle(style) == StyleAdd(style, StyleBold)

\* the subtitle: "Run n", " | " when a run was read, then the time
Subtitle(hasRun, run) ==
    [hasRun |-> hasRun, run |-> IF hasRun THEN PyStr(run) ELSE <<>>,
     time |-> "%H:%M:%S.%f[:-3]", ampm |-> " %p"]

LogPanel(record, colors, style, hasRun, run) ==
    [title |-> [level |-> record.level, file |-> record.file,
                line |-> record.line, colors |-> colors],
     title_align |-> "left", subtitle_align |-> "right",
     subtitle |-> Subtitle(hasRun, run),
     body |-> [text |-> record.message, colors |-> colors, style |-> "bold"],
     border_style |-> BorderStyle(style)]

\* __call__: if run is None: run = self.setup()
SetupIfNone(track_run, r) ==
    IF Raised(r.ret) \/ ~r.ret.none THEN r ELSE setup(track_run, r.w)

\* the part of __call__ that obtains the run of the subtitle
SubtitleRun(track_run, w) ==
    IF ~track_run THEN Ok(w) ELSE SetupIfNone(track_run, read(track_run, w))

\* __call__ left by an exception: self.run and the record are as they were
Failed(self, w, e) ==
    [w |-> w, ret |-> e, run |-> self.run, hasExtra |-> FALSE, extra |-> <<>>]

\* __call__ after console.print: a recording console is exported into
\* record["extra"]["rich"], which clears its record buffer
Exported(self, hasRun, run, p) ==
    IF Raised(p.ret) THEN Failed(self, p.w, p.ret)
    ELSE [w |-> IF p.w.record THEN [p.w EXCEPT !.buffer = <<>>] ELSE p.w,
          ret |-> ReturnNone,
          run |-> IF hasRun THEN Some(run) ELSE self.run,
          hasExtra |-> p.w.record,
          extra |-> IF p.w.record THEN p.w.buffer ELSE <<>>]

\* faulty variant: the run held in self.run is shown instead of the one read
PrintPanel_cached(self, record, r) ==
    IF Raised(r.ret) THEN Failed(self, r.w, r.ret)
    ELSE Exported(self, self.track_run /\ ~r.ret.none, (IF self.run.none THEN r.ret.val ELSE self.run.val),
                  ConsolePrint(r.w, PanelItem(
                      LogPanel(record, GradientOf(record.level),
                               StyleOf(record.level),
                               self.track_run /\ ~r.ret.none, (IF self.run.none THEN r.ret.val ELSE self.run.val)))))

\* __call__ once the run of the subtitle is known: build and print the panel
PrintPanel(self, record, r) ==
    IF Raised(r.ret) THEN Failed(self, r.w, r.ret)
    ELSE Exported(self, self.track_run /\ ~r.ret.none, r.ret.val,
                  ConsolePrint(r.w, PanelItem(
                      LogPanel(record, GradientOf(record.level),
                               StyleOf(record.level),
                               self.track_run /\ ~r.ret.none, r.ret.val))))

\* RichSink.__call__(message): the result carries the new self.run and what
\* record["extra"]["rich"] is set to
RichSink__call__(self, w, record) ==
    IF ~HasGradient(record.level) \/ ~HasStyle(record.level)
    THEN Failed(self, w, Raise("KeyError"))
    ELSE PrintPanel(self, record, SubtitleRun(self.track_run, w))

(***************************************************************************)
(* get_logger and the dispatch of a logged record to the sink.             *)
(***************************************************************************)
\* the console a sink ends with: the one passed in, or get_console()
SinkConsole(w, console) ==
    [w EXCEPT !.hasConsole = TRUE, !.record = (console = "recording"),
              !.buffer = <<>>]

\* get_logger after run = sink.setup(): the handlers are configured
Configured(self, r) ==
    [w |-> r.w, self |-> self,
     ret |-> IF Raised(r.ret) THEN r.ret ELSE ReturnNone]

\* get_logger after sink = RichSink(console=console, track_run=track_run)
SetupSink(console, track_run, c) ==
    IF Raised(c.ret) THEN [w |-> c.w, self |-> c.self, ret |-> c.ret]
    ELSE Configured(c.self,
                    IF track_run.truthy
                    THEN setup(c.self.track_run, SinkConsole(c.w, console))
                    ELSE Ok(SinkConsole(c.w, console)))

\* get_logger(console, track_run)
get_logger(console, track_run, w) ==
    SetupSink(console, track_run, RichSink__init__(track_run, None, w))

\* the level numbers of loguru, and of the custom level of the tests
LevelNo(level) ==
    CASE level = "TRACE" -> 5
      [] level = "DEBUG" -> 10
      [] level = "CUSTOM" -> 15
      [] level = "INFO" -> 20
      [] level = "SUCCESS" -> 25
      [] level = "WARNING" -> 30
      [] level = "ERROR" -> 40
      [] level = "CRITICAL" -> 50

\* "level": "INFO" of the handler get_logger configures
HandlerLevelNo == LevelNo("INFO")

(***************************************************************************)
(* The state.                                                              *)
(***************************************************************************)
VARIABLES
    dirExists,      \* LOGS_DIR exists
    fileExists,     \* RUN_FILE exists
    fileContent,    \* the characters of RUN_FILE (<<>> while it is missing)
    sink,           \* the RichSink the caller holds
    console,        \* the console of that sink: record flag, record buffer
    logger,         \* the handler of the loguru logger
    last,           \* the last call: operation, arguments, result, effects
    prev,           \* the call before it
    deletes,        \* external deletions so far
    incs,           \* increment() calls completed, where they are counted
    procs           \* two processes inside increment(): position, run read

vars == <<dirExists, fileExists, fileContent, sink, console, logger, last,
          prev, deletes, incs, procs>>

NoArgs == [track_run |-> PyFalse, run |-> None, console |-> "None", v |-> 0,
           level |-> "", kind |-> ""]

Storage == [dirExists |-> dirExists, fileExists |-> fileExists,
            fileContent |-> fileContent]

NoCall == [op |-> "none", args |-> NoArgs, ret |-> ReturnNone,
           pre |-> [dirExists |-> FALSE, fileExists |-> FALSE, fileContent |-> <<>>],
           io |-> <<>>, printed |-> <<>>, hasExtra |-> FALSE, extra |-> <<>>]

Brief(c) == [op |-> c.op, v |-> c.args.v, ret |-> c.ret]

\* the processes of the two-process run of increment(), before they start
Procs == {1, 2}

\* pc: where the process is in increment(); run: what its self.read() returned
Idle == [p \in Procs |-> [pc |-> "idle", run |-> ReturnNone, ret |-> ReturnNone]]

\* the world of a call on the sink
World == [dirExists |-> dirExists, fileExists |-> fileExists,
          fileContent |-> fileContent, hasConsole |-> TRUE,
          record |-> console.record, buffer |-> console.buffer,
          printed |-> <<>>, io |-> <<>>]

\* the world of a constructor: self.console is not assigned yet
CtorWorld == [World EXCEPT !.hasConsole = FALSE, !.record = FALSE, !.buffer = <<>>]

Commit(w) ==
    /\ dirExists' = w.dirExists
    /\ fileExists' = w.fileExists
    /\ fileContent' = w.fileContent

Called(op, args, w, ret) ==
    /\ last' = [op |-> op, args |-> args, ret |-> ret, pre |-> Storage,
                io |-> w.io, printed |-> w.printed,
                hasExtra |-> FALSE, extra |-> <<>>]
    /\ prev' = Brief(last)
    /\ UNCHANGED procs

\* a method call that leaves the sink as it is
Method(op, args, r) ==
    /\ Commit(r.w)
    /\ console' = [console EXCEPT !.buffer = r.w.buffer]
    /\ Called(op, args, r.w, r.ret)
    /\ UNCHANGED <<sink, logger, deletes, incs>>

(***************************************************************************)
(* The inputs.                                                             *)
(***************************************************************************)
\* contents int() rejects, and one it accepts that str() never writes
CorruptContents == {<<>>, <<"x">>, <<"1", "x">>}

PaddedContents == {<<" ", "7", "\n">>}

InitRuns == {0, 9}

InitContents == {PyStr(n) : n \in InitRuns} \cup CorruptContents \cup PaddedContents

TrackRunArgs == {PyTrue, PyFalse, PyVal("int", TRUE), PyVal("str", FALSE)}

SeedArgs == {None, Some(9)}

ConsoleArgs == {"None", "plain", "recording"}

WriteArgs == {0 - 1, 0, MaxRun}

LevelArgs == Levels \cup {"CUSTOM"}

LogRecord(level) == [level |-> level, message |-> "Run initialized",
                     file |-> "test_sink.py", line |-> 39]

Init ==
    /\ \/ dirExists = FALSE /\ fileExists = FALSE /\ fileContent = <<>>
       \/ dirExists = TRUE /\ fileExists = FALSE /\ fileContent = <<>>
       \/ dirExists = TRUE /\ fileExists = TRUE /\ fileContent \in InitContents
    /\ sink = [exists |-> FALSE, track_run |-> FALSE, run |-> None]
    /\ console = [record |-> FALSE, buffer |-> <<>>]
    /\ logger = "default"
    /\ last = NoCall
    /\ prev = Brief(NoCall)
    /\ deletes = 0
    /\ incs = 0
    /\ procs = Idle

(***************************************************************************)
(* The operations.                                                         *)
(***************************************************************************)
\* sink = RichSink(track_run, run, console)
Constructed(op, args, con, r) ==
    /\ Commit(r.w)
    /\ Called(op, args, r.w, r.ret)
    /\ IF Raised(r.ret)
       THEN UNCHANGED <<sink, console, logger>>
       ELSE /\ sink' = r.self
            /\ console' = [record |-> (con = "recording"), buffer |-> r.w.buffer]
            /\ logger' = IF op = "get_logger" THEN "sink"
                         ELSE IF logger = "sink" THEN "stale" ELSE logger
    /\ UNCHANGED <<deletes, incs>>

Construct(track_run, run, con) ==
    Constructed("__init__",
                [NoArgs EXCEPT !.track_run = track_run, !.run = run, !.console = con],
                con, RichSink__init__(track_run, run, CtorWorld))

\* logger = get_logger(console, track_run)
GetLogger(con, track_run) ==
    Constructed("get_logger",
                [NoArgs EXCEPT !.track_run = track_run, !.console = con],
                con, get_logger(con, track_run, CtorWorld))

\* sink.setup()
Setup ==
    /\ sink.exists
    /\ Method("setup", NoArgs, setup(sink.track_run, World))

\* sink.read()
Read ==
    /\ sink.exists
    /\ Method("read", NoArgs, read(sink.track_run, World))

\* sink.write(v)
Write(v) ==
    /\ sink.exists
    /\ Method("write", [NoArgs EXCEPT !.v = v], write(sink.track_run, World, v))

\* sink.increment()
Increment ==
    /\ sink.exists
    /\ (fileExists /\ IntOK(fileContent)) => IntVal(fileContent) < MaxRun
    /\ Method("increment", NoArgs, increment(sink.track_run, World))

\* what logger.log returns: the handler catches what the sink raises
Caught(r) == IF Raised(r.ret) THEN [r.ret EXCEPT !.kind = "caught"] ELSE r.ret

\* the sink called on a record, by the caller or by the handler of the logger
Rendered(op, level, r) ==
    /\ Commit(r.w)
    /\ sink' = [sink EXCEPT !.run = r.run]
    /\ console' = [console EXCEPT !.buffer = r.w.buffer]
    /\ last' = [op |-> op, args |-> [NoArgs EXCEPT !.level = level],
                ret |-> IF op = "log" THEN Caught(r) ELSE r.ret,
                pre |-> Storage, io |-> r.w.io,
                printed |-> r.w.printed, hasExtra |-> r.hasExtra,
                extra |-> r.extra]
    /\ prev' = Brief(last)
    /\ UNCHANGED <<logger, deletes, incs, procs>>

\* sink(message): the sink invoked on a record
Render(level) ==
    /\ sink.exists
    /\ Rendered("__call__", level, RichSink__call__(sink, World, LogRecord(level)))

\* logger.log(level, "Run initialized"): the record reaches the sink only once
\* get_logger installed it, and only at the level of the handler or above
Log(level) ==
    /\ logger \in {"default", "sink"}
    /\ IF logger = "default" \/ LevelNo(level) < HandlerLevelNo
       THEN /\ Called("log", [NoArgs EXCEPT !.level = level], World, ReturnNone)
            /\ UNCHANGED <<dirExists, fileExists, fileContent, sink, console,
                           logger, deletes, incs>>
       ELSE Rendered("log", level, RichSink__call__(sink, World, LogRecord(level)))

\* the environment removes the counter file, or the whole logs directory
ExternalDelete(kind) ==
    /\ deletes < MaxDeletes
    /\ IF kind = "file" THEN fileExists ELSE dirExists
    /\ dirExists' = (kind = "file")
    /\ fileExists' = FALSE
    /\ fileContent' = <<>>
    /\ deletes' = deletes + 1
    /\ Called("external_delete", [NoArgs EXCEPT !.kind = kind], World, ReturnNone)
    /\ UNCHANGED <<sink, console, logger, incs>>

\* the counter operations, with the sink rendering at a known and at a custom level
Next ==
    \/ \E t \in TrackRunArgs, k \in SeedArgs, c \in {"None", "plain"} :
          Construct(t, k, c)
    \/ Setup
    \/ Read
    \/ \E v \in WriteArgs : Write(v)
    \/ Increment
    \/ \E l \in {"INFO", "CUSTOM"} : Render(l)
    \/ \E k \in {"file", "dir"} : ExternalDelete(k)

Spec == Init /\ [][Next]_vars

\* rendering at every level, directly and through the logger of get_logger
NextRender ==
    \/ \E t \in {PyTrue, PyFalse}, c \in ConsoleArgs : Construct(t, None, c)
    \/ \E l \in LevelArgs : Render(l)
    \/ \E c \in ConsoleArgs, t \in {PyTrue, PyFalse} : GetLogger(c, t)
    \/ \E l \in {"DEBUG", "INFO", "CUSTOM"} : Log(l)
    \/ \E k \in {"file", "dir"} : ExternalDelete(k)

SpecRender == Init /\ [][NextRender]_vars

\* sink.increment(), with the calls that returned a run counted in incs
CountedIncrement(r) ==
    /\ sink.exists
    /\ incs < MaxRun
    /\ Commit(r.w)
    /\ console' = [console EXCEPT !.buffer = r.w.buffer]
    /\ Called("increment", NoArgs, r.w, r.ret)
    /\ incs' = IF Raised(r.ret) \/ r.ret.none THEN incs ELSE incs + 1
    /\ UNCHANGED <<sink, logger, deletes>>

\* storage before the counter is created, or just created at 0
InitMono == Init /\ (fileExists => fileContent = <<"0">>)

\* one process, from initialisation: no write(v) and no deletion from outside
NextMono ==
    \/ \E t \in {PyTrue, PyFalse}, k \in SeedArgs, c \in {"None", "plain"} :
          Construct(t, k, c)
    \/ Setup
    \/ Read
    \/ CountedIncrement(increment(sink.track_run, World))
    \/ \E l \in {"INFO", "CUSTOM"} : Render(l)

SpecMono == InitMono /\ [][NextMono]_vars

\* two processes, each with a tracking sink of its own, share a counter file
\* that holds a run; last.pre keeps what the file held at the start
InitRace ==
    /\ dirExists = TRUE /\ fileExists = TRUE
    /\ fileContent \in {PyStr(n) : n \in 0..MaxRun}
    /\ sink = Self(TRUE, None)
    /\ console = [record |-> FALSE, buffer |-> <<>>]
    /\ logger = "default"
    /\ last = [NoCall EXCEPT !.op = "start",
                             !.pre = [dirExists |-> TRUE, fileExists |-> TRUE,
                                      fileContent |-> fileContent]]
    /\ prev = Brief(NoCall)
    /\ deletes = 0
    /\ incs = 0
    /\ procs = Idle

\* a step of increment() in process p: storage changes, the process moves on
Stepped(p, pc, run, r) ==
    /\ Commit(r.w)
    /\ procs' = [procs EXCEPT ![p] = [pc |-> pc, run |-> run, ret |-> r.ret]]
    /\ UNCHANGED <<sink, console, logger, last, prev, deletes, incs>>

\* increment in process p: run = self.read()
IncRead(p, r) ==
    /\ procs[p].pc = "idle"
    /\ Stepped(p, "read", r.ret, r)

\* increment in process p: run += 1, self.write(run), return run
IncWrite(p, r) ==
    /\ procs[p].pc = "read"
    /\ Stepped(p, "done", procs[p].run, r)

NextRace ==
    \/ \E p \in Procs : IncRead(p, read(TRUE, World))
    \/ \E p \in Procs : IncWrite(p, AddOne(TRUE, [w |-> World, ret |-> procs[p].run]))

SpecRace == InitRace /\ [][NextRace]_vars

\* the interpreter exits: atexit runs on_exit
OnExit ==
    /\ (fileExists /\ IntOK(fileContent)) => IntVal(fileContent) + 2 <= MaxRun
    /\ Method("on_exit", NoArgs, on_exit(World))

\* the program starts: get_logger of __main__.py begins with run = setup()
MainGetLogger == Method("main_get_logger", NoArgs, module_setup(World))

\* runs of the program one after the other, each started by get_logger and
\* ended by the exit hook, with the counter file or the logs directory removed
\* from outside in between
NextExit ==
    \/ MainGetLogger
    \/ OnExit
    \/ \E k \in {"file", "dir"} : ExternalDelete(k)

SpecExit == Init /\ [][NextExit]_vars

(***************************************************************************)
(* Properties.                                                             *)
(***************************************************************************)
\* the last call was made on a sink that tracks runs
Tracking == sink.exists /\ sink.track_run

\* the counter file held a value int() accepts before the last call
HeldInt(pre) == pre.fileExists /\ IntOK(pre.fileContent)

\* the counter file existed with content int() rejects before the last call
HeldCorrupt(pre) == pre.fileExists /\ ~IntOK(pre.fileContent)

Panels(items) == {items[i].panel : i \in {j \in 1..Len(items) : items[j].kind = "panel"}}

\* C1: with tracking enabled and the counter file holding n >= 0, increment()
\* returns n+1, the file afterwards holds exactly the decimal string of n+1,
\* and a following read() returns n+1.
C1_IncrementAddsOne ==
    (last.op = "increment" /\ Tracking /\ HeldInt(last.pre)
        /\ IntVal(last.pre.fileContent) >= 0)
    => LET n == IntVal(last.pre.fileContent)
       IN  /\ last.ret = Return(n + 1)
           /\ fileExists
           /\ fileContent = PyStr(n + 1)
           /\ read(TRUE, World).ret = Return(n + 1)

C1_Witness ==
    /\ last.op = "increment" /\ Tracking
    /\ last.pre.fileContent = <<"9">>
    /\ last.ret = Return(10)
    /\ fileContent = <<"1", "0">>

\* C2: with tracking enabled and the counter file missing (the directory
\* present or not), read() does not raise: it returns 0, and afterwards the
\* directory and the file exist and the file holds "0".
C2_ReadSelfHeals ==
    (last.op = "read" /\ Tracking /\ ~last.pre.fileExists)
    => /\ last.ret = Return(0)
       /\ dirExists /\ fileExists
       /\ fileContent = <<"0">>

C2_Witness ==
    /\ last.op = "read" /\ Tracking
    /\ ~last.pre.dirExists /\ ~last.pre.fileExists
    /\ last.ret = Return(0) /\ fileContent = <<"0">>

\* C3: setup() is idempotent: with tracking enabled, a setup() right after a
\* setup() returns what the first returned, and a setup() on a counter file
\* holding n returns n and leaves the content as it was, never resetting it.
C3_SetupIdempotent ==
    /\ (last.op = "setup" /\ prev.op = "setup" /\ Tracking) => last.ret = prev.ret
    /\ (last.op = "setup" /\ Tracking /\ HeldInt(last.pre))
       => /\ last.ret = Return(IntVal(last.pre.fileContent))
          /\ fileExists /\ fileContent = last.pre.fileContent

C3_Witness ==
    /\ last.op = "setup" /\ prev.op = "setup" /\ Tracking
    /\ last.pre.fileContent = <<"9">>
    /\ prev.ret = Return(9) /\ last.ret = Return(9)
    /\ fileContent = <<"9">>

\* C4: with tracking enabled, a write(v) that found the storage directory,
\* v >= 0, followed immediately by read() makes read() return exactly v,
\* whatever the counter file held before.
C4_WriteReadRoundTrip ==
    (last.op = "read" /\ prev.op = "write" /\ Tracking
        /\ ~Raised(prev.ret) /\ prev.v >= 0)
    => /\ last.ret = Return(prev.v)
       /\ last.pre.fileContent = PyStr(prev.v)

C4_Witness ==
    /\ last.op = "read" /\ prev.op = "write" /\ Tracking
    /\ prev.v = MaxRun /\ prev.v >= 10
    /\ last.ret = Return(MaxRun)

\* C5: constructing a tracking sink without a seed run while the counter file
\* does not exist completes without raising, and the following setup() and
\* read() both return 0.
C5_ConstructOnMissingFile ==
    (last.op = "__init__" /\ last.args.track_run = PyTrue /\ last.args.run.none
        /\ ~last.pre.fileExists)
    => /\ ~Raised(last.ret)
       /\ setup(TRUE, World).ret = Return(0)
       /\ read(TRUE, World).ret = Return(0)

\* C6: from fresh storage, get_logger(track_run=True) with a recording console
\* followed by one INFO record "Run initialized" leaves the counter file
\* holding "1" and the captured text holding "Run 1" and "Run initialized".
C6_GetLoggerIncrementsRun ==
    [][(/\ last.op = "get_logger"
        /\ last.args.track_run = PyTrue /\ last.args.console = "recording"
        /\ ~last.pre.dirExists /\ ~last.pre.fileExists
        /\ last'.op = "log" /\ last'.args.level = "INFO")
       => (/\ fileExists' /\ fileContent' = <<"1">>
           /\ \E i \in 1..Len(console'.buffer) :
                 /\ console'.buffer[i].kind = "panel"
                 /\ console'.buffer[i].panel.subtitle.hasRun
                 /\ console'.buffer[i].panel.subtitle.run = <<"1">>
                 /\ console'.buffer[i].panel.body.text = "Run initialized")]_vars

\* C7: the sink invoked on a record of a level outside the 7 table entries
\* does not raise, and a panel is still printed.
C7_UnknownLevelFallsBack ==
    (last.op = "__call__" /\ last.args.level \notin Levels)
    => /\ ~Raised(last.ret)
       /\ Panels(last.printed) # {}

\* C8: when the counter file exists with content that is no integer (empty
\* content included), read(), setup(), increment() and a render, all with
\* tracking enabled, raise to the caller (ValueError, from the int()
\* conversion, wherever the level is a known one); no value is substituted,
\* nothing is printed as a panel and the storage is left as it was.
C8_CorruptContentRaises ==
    (last.op \in {"read", "setup", "increment", "__call__"} /\ Tracking
        /\ HeldCorrupt(last.pre))
    => /\ Raised(last.ret)
       /\ (last.op # "__call__" \/ last.args.level \in Levels)
             => last.ret = Raise("ValueError")
       /\ Storage = last.pre
       /\ \A i \in 1..Len(last.io) : last.io[i] \notin {"open_w", "mkdir"}
       /\ Panels(last.printed) = {}

C8_Witness ==
    /\ last.op = "increment" /\ Tracking
    /\ last.pre.fileExists /\ last.pre.fileContent = <<>>
    /\ last.ret = Raise("ValueError")
    /\ fileExists /\ fileContent = <<>>

\* C9: a constructor given a track_run that is not a bool raises at once and
\* touches no storage: nothing is tested for existence, created, read or
\* written.
C9_NonBoolTrackRunRejected ==
    (last.op = "__init__" /\ last.args.track_run.type # "bool")
    => /\ last.ret = Raise("NotImplementedError")
       /\ last.io = <<>>
       /\ Storage = last.pre

C9_Witness ==
    /\ last.op = "__init__"
    /\ last.args.track_run = PyVal("int", TRUE) /\ last.args.run.none
    /\ ~last.pre.dirExists
    /\ last.ret = Raise("NotImplementedError")
    /\ ~dirExists /\ ~fileExists

\* C10: LEVEL_STYLES and GRADIENTS cover exactly the 7 levels; a panel
\* rendered at one of them has that level's gradient as title and body
\* colors and that level's style with bold forced as border style; and no
\* two levels share a (style, gradient) pair.
C10_LevelTables ==
    /\ DOMAIN LEVEL_STYLES = Levels
    /\ DOMAIN GRADIENTS = Levels
    /\ Cardinality(Levels) = 7
    /\ \A a, b \in Levels :
          (LEVEL_STYLES[a] = LEVEL_STYLES[b] /\ GRADIENTS[a] = GRADIENTS[b]) => a = b
    /\ (last.op = "__call__" /\ last.args.level \in Levels /\ ~Raised(last.ret))
       => /\ Cardinality(Panels(last.printed)) = 1
          /\ \A p \in Panels(last.printed) :
                /\ p.title.level = last.args.level
                /\ p.title.colors = GRADIENTS[last.args.level]
                /\ p.body.colors = GRADIENTS[last.args.level]
                /\ p.border_style.bold = "True"
                /\ \A f \in {"dim", "color", "bgcolor"} :
                      p.border_style[f] = LEVEL_STYLES[last.args.level][f]

C10_Witness ==
    /\ last.op = "__call__" /\ last.args.level = "TRACE" /\ ~Raised(last.ret)
    /\ \E p \in Panels(last.printed) :
          /\ p.border_style.bold = "True" /\ p.border_style.dim = "True"
          /\ p.title.colors = <<"#888888", "#aaaaaa", "#cccccc">>

\* C11: with tracking enabled a render reads the counter from storage: the
\* "Run n" of the panel is the value the file holds at that render (0 when
\* the render had to create the file), whatever increment() and write() did
\* since the last render and whatever run the sink held; and a render leaves
\* an existing counter file, and its directory, as they were.
C11_RenderReadsStorage ==
    (last.op = "__call__" /\ Tracking /\ ~Raised(last.ret))
    => /\ fileExists /\ IntOK(fileContent)
       /\ Cardinality(Panels(last.printed)) = 1
       /\ \A p \in Panels(last.printed) :
             /\ p.subtitle.hasRun
             /\ p.subtitle.run = PyStr(IntVal(fileContent))
       /\ sink.run = Some(IntVal(fileContent))
       /\ \E i \in 1..Len(last.io) : last.io[i] = "open_r"
       /\ last.pre.fileExists
             => /\ Storage = last.pre
                /\ \A i \in 1..Len(last.io) : last.io[i] \notin {"open_w", "mkdir"}
       /\ ~last.pre.fileExists => fileContent = <<"0">>

C11_Witness ==
    /\ last.op = "__call__" /\ Tracking /\ ~Raised(last.ret)
    /\ prev.op = "increment" /\ prev.ret = Return(10)
    /\ \E p \in Panels(last.printed) : p.subtitle.run = <<"1", "0">>
    /\ fileContent = <<"1", "0">>

\* C15: on a sink that does not track runs, setup(), read(), write(v) and
\* increment() return None without one storage operation, and a render
\* performs no storage operation either and prints a panel whose subtitle has
\* no "Run n"; storage, whether missing, initialised or corrupt, is left as
\* it was.
C15_UntrackedLeavesStorage ==
    (sink.exists /\ ~sink.track_run)
    => /\ last.op \in {"setup", "read", "write", "increment"}
             => /\ last.ret = ReturnNone
                /\ last.io = <<>>
                /\ Storage = last.pre
       /\ last.op = "__call__"
             => /\ last.io = <<>>
                /\ Storage = last.pre
                /\ \A p \in Panels(last.printed) : ~p.subtitle.hasRun
                /\ last.args.level \in Levels
                      => /\ ~Raised(last.ret)
                         /\ Cardinality(Panels(last.printed)) = 1

C15_Witness ==
    /\ sink.exists /\ ~sink.track_run
    /\ prev.op = "write" /\ prev.v = MaxRun /\ prev.ret = ReturnNone
    /\ last.op = "__call__" /\ ~Raised(last.ret)
    /\ HeldCorrupt(last.pre)
    /\ Panels(last.printed) # {}

\* C16: a constructor given a run k performs no storage operation and leaves
\* storage as it was, missing, initialised or corrupt, whether tracking is
\* asked for or not; the sink it builds holds the run k.
C16_SeededConstructorSkipsStorage ==
    (last.op = "__init__" /\ ~last.args.run.none
        /\ last.args.track_run.type = "bool")
    => /\ ~Raised(last.ret)
       /\ last.io = <<>>
       /\ Storage = last.pre
       /\ sink.exists
       /\ sink.run = last.args.run
       /\ sink.track_run = last.args.track_run.truthy

C16_Witness ==
    /\ last.op = "__init__" /\ last.args.run = Some(9)
    /\ last.args.track_run = PyTrue
    /\ HeldCorrupt(last.pre)
    /\ sink.run = Some(9) /\ sink.track_run

\* C17: on a tracking sink, increment() called while the counter file is
\* missing, never created or removed from outside, does not raise: the file
\* is created at 0, the call returns 1, and the file holds "1".
C17_IncrementOnMissingFile ==
    (last.op = "increment" /\ Tracking /\ ~last.pre.fileExists)
    => /\ last.ret = Return(1)
       /\ dirExists /\ fileExists
       /\ fileContent = <<"1">>
       /\ \E i \in 1..Len(last.io) : last.io[i] = "open_w"

C17_Witness ==
    /\ prev.op = "external_delete"
    /\ last.op = "increment" /\ Tracking
    /\ ~last.pre.dirExists
    /\ last.ret = Return(1) /\ fileContent = <<"1">>

\* C14: in one process that starts before or at initialisation at 0 and makes
\* constructor, setup(), read(), increment() and render calls only, the
\* counter file, once it exists, holds the number of increment() calls that
\* returned a run (the calls on a tracking sink), no call lowers the value
\* held, and no call removes the file or its directory.
C14_CounterCountsIncrements ==
    /\ fileExists => /\ dirExists
                     /\ IntOK(fileContent)
                     /\ fileContent = PyStr(incs)
    /\ ~fileExists => incs = 0
    /\ last.pre.dirExists => dirExists
    /\ last.pre.fileExists
          => /\ fileExists
             /\ IntVal(fileContent) >= IntVal(last.pre.fileContent)

C14_Witness ==
    /\ incs = 3 /\ fileContent = <<"3">>
    /\ last.op = "__call__" /\ Tracking /\ ~Raised(last.ret)
    /\ prev.op = "increment" /\ prev.ret = Return(3)

\* C12: increment() reads, then writes, with nothing held in between.  When
\* two processes each run it once on a counter holding n, each returns one
\* more than the value it read and the file ends at the value written last;
\* in the interleaving where both read before either writes, both return n+1
\* and the counter ends at n+1, not n+2: one update is lost.
C12_LostUpdate ==
    LET n == IntVal(last.pre.fileContent) IN
    (\A p \in Procs : procs[p].pc = "done")
    => /\ \A p \in Procs :
             /\ ~Raised(procs[p].ret) /\ ~procs[p].ret.none
             /\ procs[p].ret.val = procs[p].run.val + 1
             /\ procs[p].run.val \in {n, n + 1}
       /\ \E p \in Procs : procs[p].run.val = n
       /\ fileExists /\ IntOK(fileContent)
       /\ (\A p \in Procs : procs[p].run.val = n)
             => /\ fileContent = PyStr(n + 1)
                /\ \A p \in Procs : procs[p].ret = Return(n + 1)
       /\ (\E p \in Procs : procs[p].run.val = n + 1)
             => fileContent = PyStr(n + 2)

C12_Witness ==
    /\ last.op = "start" /\ last.pre.fileContent = <<"9">>
    /\ \A p \in Procs : procs[p].pc = "done" /\ procs[p].ret = Return(10)
    /\ fileContent = <<"1", "0">>

\* C13: the exit hook increments the counter exactly once: a counter that
\* holds n when on_exit starts holds n+1 when it finishes, and a counter file
\* that is missing when on_exit starts is created at 0 and holds 1 when it
\* finishes.
C13_ExitIncrementsOnce ==
    (last.op = "on_exit")
    => /\ HeldInt(last.pre)
             => /\ fileExists
                /\ fileContent = PyStr(IntVal(last.pre.fileContent) + 1)
       /\ ~last.pre.fileExists
             => /\ fileExists
                /\ fileContent = <<"1">>

=============================================================================
